---- MODULE Spec2Model ----
(***************************************************************************)
(* State-machine model of pi_ADC.py: a bit-banged readout of an ADS7886    *)
(* converter.  The program drives SCLK, samples SDO, looks for the four    *)
(* leading zeros of a conversion (waitForData), reads `resolution` data    *)
(* bits (readADC), converts them to millivolts and appends readings above  *)
(* `threshold` to ADC_file.                                                *)
(*                                                                         *)
(* Every GPIO call is one step; pc holds the source line about to run.     *)
(* Statements that touch only locals are grouped with the step before or   *)
(* after them.  Locals of a function are reset to their defaults when its  *)
(* frame is left (return or exception).                                    *)
(***************************************************************************)
EXTENDS Integers, Sequences, FiniteSets, TLC

(***************************************************************************)
(* Program constants (module level of pi_ADC.py).                          *)
(***************************************************************************)
vref == 3300
offset == 0
threshold == 200
LOW == 0
HIGH == 1
\* range(3): the bits read after the first zero of a block (line 67)
innerReads == 3
\* range(20): the clock toggles of startADC (line 49)
flushPulses == 20

(***************************************************************************)
(* Bounds of the model.                                                    *)
(***************************************************************************)
\* Bits a free-running converter shifts out before the model stops clocking.
MaxPulses == 42
\* Longest preloaded bit stream of the liveness specification.
MaxLen == 6
\* Most idle 1s in front of a conversion in the scenario specification.
MaxLead == 2

Bit == {0, 1}

\* Length of the frame marker the program looks for: one zero found by the
\* outer loop plus innerReads zeros read by the inner loop.
K == innerReads + 1

RECURSIVE Pow2(_)
Pow2(n) == IF n = 0 THEN 1 ELSE 2 * Pow2(n - 1)

VARIABLES
    pc,            \* source line about to execute ("load": file not yet compiled,
                   \* "exit": process ended)
    ret,           \* caller of the running waitForData: "startADC" / "readADC" / "none"
    caught,        \* exception caught by the except of line 111 ("none" if none)
    uncaught,      \* exception or compile error that ended the process ("none" if none)
    clock,         \* last level on clockPin
    hold,          \* last level on holdPin
    sdo,           \* level of sdoPin as GPIO.input would read it now
    stream,        \* bits a triggered converter still has to shift out
    tristate,      \* TRUE: once stream is exhausted SDO floats and the pull-up reads 1
                   \* FALSE: the converter keeps shifting out arbitrary bits
    pos,           \* index of the bit now on SDO (1 = the bit present before any edge)
    consumed,      \* highest stream index already sampled or flushed
    dataDetected,  \* waitForData local
    wi,            \* waitForData: iterations of `for _i in range(3)` already done
    fi,            \* startADC: iterations of `for _i in range(20)` already done
    rk,            \* readADC: position of the list iterator of `for i in validDataList`
    ri,            \* readADC: loop variable i
    validDataList, \* readADC local, a function 0..resolution-1 -> Nat (<<>> when unbound)
    validData,     \* readADC local: the raw sum (at r91), then the voltage * 2^resolution
    window,        \* the last (at most K) bits sampled by the current/last waitForData call
    file,          \* values handed to ADC_file.write, in order
    closed,        \* ADC_file.close() has run
    resolution,    \* the global `resolution` (line 20): number of data bits per reading
    input,         \* the burst the converter was loaded with at the start (<<>>: free-running)
    syncEnd,       \* stream index of the last bit sampled by the last waitForData that returned
    np,            \* LOW/HIGH pulses issued so far by the running waitForData call
    n1,            \* 1s sampled so far by line 63 (outer loop) in the running call
    n0,            \* 0s sampled so far by line 63 (outer loop) in the running call
    bitsRead,      \* the bits sampled by line 83 in the running readADC call, in order
    log            \* one entry per reading that reached line 97: bits read, voltage, decision

vars == <<pc, ret, caught, uncaught, clock, hold, sdo, stream, tristate, pos, consumed, dataDetected,
          wi, fi, rk, ri, validDataList, validData, window, file, closed,
          resolution, input, syncEnd, np, n1, n0, bitsRead, log>>

env == <<sdo, stream, tristate, pos>>
wfdLocals == <<dataDetected, wi>>
readLocals == <<rk, ri, validDataList, validData>>
sink == <<file, closed>>
exc == <<caught, uncaught>>
\* what no step of the program assigns
fixed == <<hold, resolution, input>>
\* the record of what the program sampled and decided
obs == <<window, syncEnd, np, n1, n0, bitsRead, log>>

(***************************************************************************)
(* Pure helpers.                                                           *)
(***************************************************************************)
\* list(range(resolution)) (line 79)
RangeList == [i \in 0..(resolution - 1) |-> i]

\* Lines 86-88: validData += validDataList[i] * 2**(resolution-i-1.0), i ascending.
\* All intermediate values are integers below 2^53, so the float sum is exact.
RECURSIVE SumFrom(_, _, _)
SumFrom(list, i, acc) ==
    IF i = resolution THEN acc
    ELSE SumFrom(list, i + 1, acc + list[i] * Pow2(resolution - i - 1))

\* Mutant: the first bit read is given the lowest weight.
RECURSIVE SumFromLsb(_, _, _)
SumFromLsb(list, i, acc) ==
    IF i = resolution THEN acc
    ELSE SumFromLsb(list, i + 1, acc + list[i] * Pow2(i))

Assemble_LsbFirst(list) == SumFromLsb(list, 0, 0)

Assemble(list) == SumFrom(list, 0, 0)

\* Mutant: full scale counted as 2^resolution - 1 steps above the raw value.
ToVoltage_OffByOne(raw) == (raw + 1) * vref + offset * Pow2(resolution)

\* Line 91: (validData / 2.0**resolution) * vref + offset, kept as the exact
\* integer voltage * 2^resolution (the division by a power of two and the
\* product are exact in binary floating point for these magnitudes).
ToVoltage(raw) == raw * vref + offset * Pow2(resolution)

\* Mutant: the comparison of line 97 inverted.
AboveThreshold_Inverted(v) == v < threshold * Pow2(resolution)

\* Line 97: validData > threshold, on the scaled voltage.
AboveThreshold(v) == v > threshold * Pow2(resolution)

\* Counting of pulses and samples within one waitForData call; a call that
\* never returns (idle line) is not counted beyond MaxPulses.
Count(n) == IF n < MaxPulses THEN n + 1 ELSE n

\* Append a sampled bit to the window of the last K samples.
Slide(w, b) == IF Len(w) < K THEN Append(w, b) ELSE Append(Tail(w), b)

(***************************************************************************)
(* The clock line and the converter.  GPIO.output(clockPin, level) sets    *)
(* the line; the converter shifts its next bit onto SDO on a falling edge. *)
(***************************************************************************)
FallingEdge(level) == clock = HIGH /\ level = LOW

ShiftOut ==
    IF stream # <<>>
    THEN /\ sdo' = Head(stream)
         /\ stream' = Tail(stream)
         /\ pos' = pos + 1
    ELSE IF tristate
    THEN /\ sdo' = 1
         /\ UNCHANGED <<stream, pos>>
    ELSE /\ pos < MaxPulses
         /\ \E b \in Bit : sdo' = b
         /\ pos' = pos + 1
         /\ UNCHANGED stream

\* GPIO.output(clockPin, level)
Output(level) ==
    /\ clock' = level
    /\ IF FallingEdge(level) THEN ShiftOut ELSE UNCHANGED <<sdo, stream, pos>>
    /\ UNCHANGED tristate

(***************************************************************************)
(* Initial state: the file has been handed to the interpreter and no       *)
(* statement of it has run yet (pc = "load").  The pins hold whatever      *)
(* level they had: holdPin is driven only by line 33, clockPin is made an  *)
(* output by line 34 without a commanded level.                            *)
(***************************************************************************)
InitProgram ==
    /\ pc = "load"
    /\ ret = "none"
    /\ caught = "none"
    /\ uncaught = "none"
    /\ clock \in {LOW, HIGH}
    /\ hold \in {LOW, HIGH}
    /\ pos = 1
    /\ consumed = 0
    /\ dataDetected = FALSE
    /\ wi = 0
    /\ fi = 0
    /\ rk = 0
    /\ ri = 0
    /\ validDataList = <<>>
    /\ validData = 0
    /\ window = <<>>
    /\ file = <<>>
    /\ closed = FALSE
    /\ syncEnd = 0
    /\ np = 0
    /\ n1 = 0
    /\ n0 = 0
    /\ bitsRead = <<>>
    /\ log = <<>>

\* The program as shipped (resolution = 12, line 20) on a converter that
\* shifts out an arbitrary bit on every falling edge.
Init ==
    /\ InitProgram
    /\ resolution = 12
    /\ input = <<>>
    /\ sdo \in Bit
    /\ stream = <<>>
    /\ tristate = FALSE

(***************************************************************************)
(* Loading the file.  Line 112 is indented with two tabs, the lines around *)
(* it with spaces.  As shipped, the file is therefore rejected when it is  *)
(* compiled -- Python 3 reports TabError at line 112, Python 2             *)
(* IndentationError at line 113 -- and not one statement runs: no GPIO     *)
(* setup, no file opened, no acquisition, no handler.  The program runs    *)
(* only from a copy whose line 112 is indented with spaces like lines      *)
(* 113-114; every step after module_19 describes that copy.                *)
(***************************************************************************)
\* lines 111-113 as shipped: the compiler rejects the file
compile_Rejected ==
    /\ pc = "load"
    /\ \E e \in {"TabError", "IndentationError"} : uncaught' = e
    /\ pc' = "exit"
    /\ UNCHANGED <<ret, caught, clock, fixed, env, consumed, wfdLocals, fi, readLocals,
                   obs, sink>>

\* lines 19-37 (file accepted): constants, pin setup with holdPin driven LOW
\* on line 33, ADC_file opened; then line 118 calls main()
module_19 ==
    /\ pc = "load"
    /\ hold' = LOW
    /\ pc' = "m104"
    /\ UNCHANGED <<ret, exc, clock, resolution, input, env, consumed, wfdLocals, fi,
                   readLocals, obs, sink>>

Load == compile_Rejected \/ module_19

(***************************************************************************)
(* main (lines 102-114)                                                    *)
(***************************************************************************)
\* line 104: startADC(); line 44: print
main_104 ==
    /\ pc = "m104"
    /\ pc' = "s46"
    /\ UNCHANGED <<ret, exc, clock, fixed, env, consumed, wfdLocals, fi, readLocals,
                   obs, sink>>

\* lines 106-108: try / while True / readADC()
main_108 ==
    /\ pc = "m108"
    /\ pc' = "r76"
    /\ UNCHANGED <<ret, exc, clock, fixed, env, consumed, wfdLocals, fi, readLocals,
                   obs, sink>>

\* Mutant: after the delay the program starts over from startADC.
main_109_Restarts ==
    /\ pc = "m109"
    /\ pc' = "m104"
    /\ UNCHANGED <<ret, exc, clock, fixed, env, consumed, wfdLocals, fi, readLocals,
                   obs, sink>>

\* line 109: time.sleep(sleepTime)
main_109 ==
    /\ pc = "m109"
    /\ pc' = "m108"
    /\ UNCHANGED <<ret, exc, clock, fixed, env, consumed, wfdLocals, fi, readLocals,
                   obs, sink>>

(***************************************************************************)
(* startADC (lines 42-53)                                                  *)
(***************************************************************************)
\* line 46: waitForData()
startADC_46 ==
    /\ pc = "s46"
    /\ pc' = "w58"
    /\ ret' = "startADC"
    /\ UNCHANGED <<exc, clock, fixed, env, consumed, wfdLocals, fi, readLocals,
                   obs, sink>>

\* Mutant: the flush loop runs one pulse short.
startADC_49_ShortFlush ==
    /\ pc = "s49"
    /\ IF fi < flushPulses - 1
       THEN pc' = "s50" /\ UNCHANGED fi
       ELSE pc' = "m108" /\ fi' = 0
    /\ UNCHANGED <<ret, exc, clock, fixed, env, consumed, wfdLocals, readLocals,
                   obs, sink>>

\* line 49: for _i in range(20); line 53: print and return to main
startADC_49 ==
    /\ pc = "s49"
    /\ IF fi < flushPulses
       THEN pc' = "s50" /\ UNCHANGED fi
       ELSE pc' = "m108" /\ fi' = 0
    /\ UNCHANGED <<ret, exc, clock, fixed, env, consumed, wfdLocals, readLocals,
                   obs, sink>>

\* line 50: GPIO.output(clockPin, GPIO.LOW); the bit shifted out is never sampled
startADC_50 ==
    /\ pc = "s50"
    /\ Output(LOW)
    /\ consumed' = pos'
    /\ pc' = "s51"
    /\ UNCHANGED <<ret, exc, fixed, wfdLocals, fi, readLocals, obs, sink>>

\* Mutant: the flush toggle ends on LOW.
startADC_51_EndsLow ==
    /\ pc = "s51"
    /\ Output(LOW)
    /\ fi' = fi + 1
    /\ pc' = "s49"
    /\ UNCHANGED <<ret, exc, fixed, consumed, wfdLocals, readLocals, obs, sink>>

\* line 51: GPIO.output(clockPin, GPIO.HIGH)
startADC_51 ==
    /\ pc = "s51"
    /\ Output(HIGH)
    /\ fi' = fi + 1
    /\ pc' = "s49"
    /\ UNCHANGED <<ret, exc, fixed, consumed, wfdLocals, readLocals, obs, sink>>

(***************************************************************************)
(* waitForData (lines 56-71)                                               *)
(***************************************************************************)
\* line 58: dataDetected = False
waitForData_58 ==
    /\ pc = "w58"
    /\ dataDetected' = FALSE
    /\ wi' = 0
    /\ window' = <<>>
    /\ np' = 0
    /\ n1' = 0
    /\ n0' = 0
    /\ UNCHANGED <<syncEnd, bitsRead, log>>
    /\ pc' = "w59"
    /\ UNCHANGED <<ret, exc, clock, fixed, env, consumed, fi, readLocals, sink>>

\* Where waitForData returns to: line 49 of startADC or line 79 of readADC.
ReturnPc == IF ret = "startADC" THEN "s49" ELSE "r79"

\* line 59: while not dataDetected (falling out of the loop returns)
waitForData_59 ==
    /\ pc = "w59"
    /\ IF ~dataDetected
       THEN /\ pc' = "w60"
            /\ UNCHANGED <<ret, dataDetected, syncEnd, np, n1, n0>>
       ELSE /\ pc' = ReturnPc
            /\ ret' = "none"
            /\ dataDetected' = FALSE
            /\ syncEnd' = pos
            /\ np' = 0
            /\ n1' = 0
            /\ n0' = 0
    /\ UNCHANGED <<exc, clock, fixed, env, consumed, wi, fi, readLocals, window, bitsRead, log, sink>>

\* Mutant: every search pulse also raises the hold line to request a conversion.
waitForData_60_RaisesHold ==
    /\ pc = "w60"
    /\ Output(LOW)
    /\ hold' = HIGH
    /\ pc' = "w61"
    /\ UNCHANGED <<ret, exc, resolution, input, consumed, wfdLocals, fi, readLocals,
                   obs, sink>>

\* line 60: GPIO.output(clockPin, GPIO.LOW)
waitForData_60 ==
    /\ pc = "w60"
    /\ Output(LOW)
    /\ pc' = "w61"
    /\ UNCHANGED <<ret, exc, fixed, consumed, wfdLocals, fi, readLocals, obs, sink>>

\* line 61: GPIO.output(clockPin, GPIO.HIGH)
waitForData_61 ==
    /\ pc = "w61"
    /\ Output(HIGH)
    /\ np' = Count(np)
    /\ pc' = "w63"
    /\ UNCHANGED <<ret, exc, fixed, consumed, wfdLocals, fi, readLocals, window, syncEnd, n1, n0, bitsRead, log, sink>>

\* lines 63-64: if not GPIO.input(sdoPin): dataDetected = True
waitForData_63 ==
    /\ pc = "w63"
    /\ window' = Slide(window, sdo)
    /\ consumed' = pos
    /\ IF sdo = 0
       THEN /\ dataDetected' = TRUE
            /\ wi' = 0
            /\ n0' = Count(n0)
            /\ pc' = "w67"
            /\ UNCHANGED n1
       ELSE /\ UNCHANGED <<dataDetected, wi, n0>>
            /\ n1' = Count(n1)
            /\ pc' = "w59"
    /\ UNCHANGED <<ret, exc, clock, fixed, env, fi, readLocals, syncEnd, np, bitsRead, log, sink>>

\* Mutant: only two follow-up bits are read (range(2)).
waitForData_67_TwoReads ==
    /\ pc = "w67"
    /\ IF wi < innerReads - 1
       THEN pc' = "w68" /\ UNCHANGED wi
       ELSE pc' = "w59" /\ wi' = 0
    /\ UNCHANGED <<ret, exc, clock, fixed, env, consumed, dataDetected, fi, readLocals,
                   obs, sink>>

\* line 67: for _i in range(3)
waitForData_67 ==
    /\ pc = "w67"
    /\ IF wi < innerReads
       THEN pc' = "w68" /\ UNCHANGED wi
       ELSE pc' = "w59" /\ wi' = 0
    /\ UNCHANGED <<ret, exc, clock, fixed, env, consumed, dataDetected, fi, readLocals,
                   obs, sink>>

\* line 68: GPIO.output(clockPin, GPIO.LOW)
waitForData_68 ==
    /\ pc = "w68"
    /\ Output(LOW)
    /\ pc' = "w69"
    /\ UNCHANGED <<ret, exc, fixed, consumed, wfdLocals, fi, readLocals, obs, sink>>

\* line 69: GPIO.output(clockPin, GPIO.HIGH)
waitForData_69 ==
    /\ pc = "w69"
    /\ Output(HIGH)
    /\ np' = Count(np)
    /\ pc' = "w70"
    /\ UNCHANGED <<ret, exc, fixed, consumed, wfdLocals, fi, readLocals, window, syncEnd, n1, n0, bitsRead, log, sink>>

\* Mutant: a 1 among the three follow-up bits leaves the for loop at once (break).
waitForData_70_Breaks ==
    /\ pc = "w70"
    /\ window' = Slide(window, sdo)
    /\ consumed' = pos
    /\ IF sdo = 1
       THEN dataDetected' = FALSE /\ wi' = 0 /\ pc' = "w59"
       ELSE UNCHANGED dataDetected /\ wi' = wi + 1 /\ pc' = "w67"
    /\ UNCHANGED <<ret, exc, clock, fixed, env, fi, readLocals, syncEnd, np, n1, n0, bitsRead, log, sink>>

\* Mutant: a 1 among the three follow-up bits does not clear dataDetected.
waitForData_70_KeepDetected ==
    /\ pc = "w70"
    /\ window' = Slide(window, sdo)
    /\ consumed' = pos
    /\ wi' = wi + 1
    /\ pc' = "w67"
    /\ UNCHANGED <<ret, exc, clock, fixed, env, dataDetected, fi, readLocals, syncEnd, np, n1, n0, bitsRead, log, sink>>

\* lines 70-71: if GPIO.input(sdoPin): dataDetected = False; the for loop goes on
waitForData_70 ==
    /\ pc = "w70"
    /\ window' = Slide(window, sdo)
    /\ consumed' = pos
    /\ dataDetected' = IF sdo = 1 THEN FALSE ELSE dataDetected
    /\ wi' = wi + 1
    /\ pc' = "w67"
    /\ UNCHANGED <<ret, exc, clock, fixed, env, fi, readLocals, syncEnd, np, n1, n0, bitsRead, log, sink>>

(***************************************************************************)
(* readADC (lines 74-99)                                                   *)
(***************************************************************************)
\* line 76: waitForData()
readADC_76 ==
    /\ pc = "r76"
    /\ pc' = "w58"
    /\ ret' = "readADC"
    /\ UNCHANGED <<exc, clock, fixed, env, consumed, wfdLocals, fi, readLocals,
                   obs, sink>>

\* line 79: validDataList = list(range(resolution)); the for statement of
\* line 80 takes an iterator over that same list
readADC_79 ==
    /\ pc = "r79"
    /\ validDataList' = RangeList
    /\ rk' = 0
    /\ bitsRead' = <<>>
    /\ pc' = "r80"
    /\ UNCHANGED <<ret, exc, clock, fixed, env, consumed, wfdLocals, fi, ri, validData,
                   window, syncEnd, np, n1, n0, log, sink>>

\* Mutant: the read loop stops one bit early.
readADC_80_StopsEarly ==
    /\ pc = "r80"
    /\ IF rk < resolution - 1
       THEN /\ ri' = validDataList[rk]
            /\ rk' = rk + 1
            /\ pc' = "r81"
       ELSE /\ UNCHANGED <<ri, rk>>
            /\ pc' = "r86"
    /\ UNCHANGED <<ret, exc, clock, fixed, env, consumed, wfdLocals, fi, validDataList,
                   validData, obs, sink>>

\* line 80: for i in validDataList -- i is the element now at the iterator's position
readADC_80 ==
    /\ pc = "r80"
    /\ IF rk < resolution
       THEN /\ ri' = validDataList[rk]
            /\ rk' = rk + 1
            /\ pc' = "r81"
       ELSE /\ UNCHANGED <<ri, rk>>
            /\ pc' = "r86"
    /\ UNCHANGED <<ret, exc, clock, fixed, env, consumed, wfdLocals, fi, validDataList,
                   validData, obs, sink>>

\* Mutant: line 81 drives HIGH, so the read pulse has no falling edge.
readADC_81_NoFallingEdge ==
    /\ pc = "r81"
    /\ Output(HIGH)
    /\ pc' = "r82"
    /\ UNCHANGED <<ret, exc, fixed, consumed, wfdLocals, fi, readLocals, obs, sink>>

\* line 81: GPIO.output(clockPin, GPIO.LOW)
readADC_81 ==
    /\ pc = "r81"
    /\ Output(LOW)
    /\ pc' = "r82"
    /\ UNCHANGED <<ret, exc, fixed, consumed, wfdLocals, fi, readLocals, obs, sink>>

\* Mutant: line 82 drives LOW again, the clock never returns to HIGH.
readADC_82_StaysLow ==
    /\ pc = "r82"
    /\ Output(LOW)
    /\ pc' = "r83"
    /\ UNCHANGED <<ret, exc, fixed, consumed, wfdLocals, fi, readLocals, obs, sink>>

\* line 82: GPIO.output(clockPin, GPIO.HIGH)
readADC_82 ==
    /\ pc = "r82"
    /\ Output(HIGH)
    /\ pc' = "r83"
    /\ UNCHANGED <<ret, exc, fixed, consumed, wfdLocals, fi, readLocals, obs, sink>>

\* Mutant: the read loop is left as soon as a 1 is sampled.
readADC_83_BreaksOnOne ==
    /\ pc = "r83"
    /\ validDataList' = [validDataList EXCEPT ![ri] = sdo]
    /\ consumed' = pos
    /\ bitsRead' = Append(bitsRead, sdo)
    /\ pc' = IF sdo = 1 THEN "r86" ELSE "r80"
    /\ UNCHANGED <<ret, exc, clock, fixed, env, wfdLocals, fi, rk, ri, validData,
                   window, syncEnd, np, n1, n0, log, sink>>

\* line 83: validDataList[i] = GPIO.input(sdoPin)
readADC_83 ==
    /\ pc = "r83"
    /\ validDataList' = [validDataList EXCEPT ![ri] = sdo]
    /\ consumed' = pos
    /\ bitsRead' = Append(bitsRead, sdo)
    /\ pc' = "r80"
    /\ UNCHANGED <<ret, exc, clock, fixed, env, wfdLocals, fi, rk, ri, validData,
                   window, syncEnd, np, n1, n0, log, sink>>

\* Mutant: line 85 missing, the sum starts from the previous cycle's result.
readADC_86_CarriesOver ==
    /\ pc = "r86"
    /\ validData' = Assemble(validDataList)
                    + (IF log = <<>> THEN 0 ELSE log[Len(log)].mv)
    /\ pc' = "r91"
    /\ UNCHANGED <<ret, exc, clock, fixed, env, consumed, wfdLocals, fi, rk, ri,
                   validDataList, obs, sink>>

\* lines 86-88: validData = 0; for i in range(resolution): validData += ...
readADC_86 ==
    /\ pc = "r86"
    /\ validData' = Assemble(validDataList)
    /\ pc' = "r91"
    /\ UNCHANGED <<ret, exc, clock, fixed, env, consumed, wfdLocals, fi, rk, ri,
                   validDataList, obs, sink>>

\* lines 91-94: validData = (validData / 2.0**resolution) * vref + offset; timestamp
readADC_91 ==
    /\ pc = "r91"
    /\ validData' = ToVoltage(validData)
    /\ pc' = "r97"
    /\ UNCHANGED <<ret, exc, clock, fixed, env, consumed, wfdLocals, fi, rk, ri,
                   validDataList, obs, sink>>

\* readADC returns to line 109 of main; its locals go with its frame.
ReadReturn ==
    /\ pc' = "m109"
    /\ rk' = 0
    /\ ri' = 0
    /\ validDataList' = <<>>
    /\ validData' = 0
    /\ bitsRead' = <<>>

\* line 97: if (validData > threshold)
readADC_97 ==
    /\ pc = "r97"
    /\ IF AboveThreshold(validData)
       THEN pc' = "r98" /\ UNCHANGED <<readLocals, bitsRead>>
       ELSE ReadReturn
    /\ log' = Append(log, [bits |-> bitsRead, mv |-> validData, emit |-> (pc' = "r98")])
    /\ UNCHANGED <<ret, exc, clock, fixed, env, consumed, wfdLocals, fi, window, syncEnd, np, n1, n0, sink>>

\* lines 98-99: print; ADC_file.write("%s %f\n" % (dt_string, validData)) succeeds
readADC_99 ==
    /\ pc = "r98"
    /\ file' = Append(file, validData)
    /\ ReadReturn
    /\ UNCHANGED <<ret, exc, clock, fixed, env, consumed, wfdLocals, fi, window, syncEnd, np, n1, n0, log, closed>>

(***************************************************************************)
(* Exceptions.  The bare except of line 111 catches whatever is raised     *)
(* inside the try block of lines 106-109, including in the calls made      *)
(* there; the frames of readADC and waitForData are unwound.               *)
(***************************************************************************)
InTry ==
    \/ pc \in {"m108", "m109", "r76", "r79", "r80", "r81", "r82", "r83", "r86", "r91",
               "r97", "r98"}
    \/ pc \in {"w58", "w59", "w60", "w61", "w63", "w67", "w68", "w69", "w70"}
       /\ ret = "readADC"

Unwind ==
    /\ ret' = "none"
    /\ dataDetected' = FALSE
    /\ wi' = 0
    /\ fi' = 0
    /\ rk' = 0
    /\ ri' = 0
    /\ validDataList' = <<>>
    /\ validData' = 0
    /\ np' = 0
    /\ n1' = 0
    /\ n0' = 0
    /\ bitsRead' = <<>>

\* KeyboardInterrupt (Ctrl-C) while the loop of lines 107-109 runs: caught at line 111
InterruptInTry ==
    /\ InTry
    /\ caught' = "KeyboardInterrupt"
    /\ pc' = "h112"
    /\ UNCHANGED uncaught
    /\ Unwind
    /\ UNCHANGED <<clock, fixed, env, consumed, window, syncEnd, log, sink>>

\* KeyboardInterrupt outside the try block (startADC, or the handler itself):
\* nothing catches it and the process ends
InterruptOutside ==
    /\ ~InTry
    /\ pc # "exit"
    /\ uncaught' = "KeyboardInterrupt"
    /\ pc' = "exit"
    /\ UNCHANGED caught
    /\ Unwind
    /\ UNCHANGED <<clock, fixed, env, consumed, window, syncEnd, log, sink>>

\* line 99: ADC_file.write raises (disk full, I/O error): caught at line 111
WriteFails ==
    /\ pc = "r98"
    /\ caught' = "IOError"
    /\ pc' = "h112"
    /\ UNCHANGED uncaught
    /\ Unwind
    /\ UNCHANGED <<clock, fixed, env, consumed, window, syncEnd, log, sink>>

\* line 112: ADC_file.write("%s %f\n" % (dt_string, validData)) inside main:
\* dt_string and validData are locals of readADC and no global of that name
\* exists, so evaluating the argument raises NameError out of the handler;
\* lines 113-114 (ADC_file.close(), print) are never reached.
main_112 ==
    /\ pc = "h112"
    /\ uncaught' = "NameError"
    /\ pc' = "exit"
    /\ UNCHANGED <<ret, caught, clock, fixed, env, consumed, wfdLocals, fi, readLocals,
                   obs, sink>>

Main == main_104 \/ main_108 \/ main_109 \/ main_112

StartADC == startADC_46 \/ startADC_49 \/ startADC_50 \/ startADC_51

WaitForData ==
    \/ waitForData_58 \/ waitForData_59 \/ waitForData_60 \/ waitForData_61
    \/ waitForData_63 \/ waitForData_67 \/ waitForData_68 \/ waitForData_69
    \/ waitForData_70

ReadADC ==
    \/ readADC_76 \/ readADC_79 \/ readADC_80 \/ readADC_81 \/ readADC_82
    \/ readADC_83 \/ readADC_86 \/ readADC_91 \/ readADC_97 \/ readADC_99

Next ==
    \/ Load
    \/ Main
    \/ StartADC
    \/ WaitForData
    \/ ReadADC
    \/ InterruptInTry
    \/ InterruptOutside
    \/ WriteFails

Spec == Init /\ [][Next]_vars

(***************************************************************************)
(* A converter that was triggered once: it shifts out a finite burst of    *)
(* bits and then releases SDO, which the pull-up of line 35 holds at 1.    *)
(* The file as shipped is rejected at load (compile_Rejected) and the      *)
(* process ends there; the remaining steps are those of the file once it   *)
(* compiles.                                                               *)
(* Bursts of at most MaxLen bits end inside startADC or in the first       *)
(* waitForData of readADC, so only those steps of the program occur.  The  *)
(* program is a single thread that always runs its next statement, hence   *)
(* weak fairness of its steps.                                             *)
(***************************************************************************)
RECURSIVE BitSeqs(_)
BitSeqs(n) ==
    IF n = 0 THEN {<<>>}
    ELSE LET shorter == BitSeqs(n - 1)
         IN shorter \cup {Append(q, b) : q \in {x \in shorter : Len(x) = n - 1}, b \in Bit}

BurstInit ==
    /\ InitProgram
    /\ resolution = 12
    /\ sdo \in Bit
    /\ stream \in BitSeqs(MaxLen)
    /\ input = stream
    /\ tristate = TRUE

BurstNext ==
    \/ Load
    \/ main_104
    \/ main_108
    \/ StartADC
    \/ WaitForData
    \/ readADC_76

BurstSpec == BurstInit /\ [][BurstNext]_vars /\ WF_vars(BurstNext)

(***************************************************************************)
(* The reduced configuration of the end-to-end scenarios: the global       *)
(* resolution set to 4, everything else as shipped.  startADC has returned *)
(* (clock idle-high, line pulled up) and the converter is then triggered   *)
(* once or twice: up to MaxLead idle 1s, the K marker zeros and one data   *)
(* word, optionally followed by a second such conversion; afterwards SDO   *)
(* floats at 1.  Stream positions count from the first bit of the burst.   *)
(* The loop runs without interrupts or write errors.                       *)
(***************************************************************************)
Ones(n) == [i \in 1..n |-> 1]

Words(n) == {q \in BitSeqs(n) : Len(q) = n}

Conversions(w) ==
    {Ones(n) \o [i \in 1..K |-> 0] \o d : n \in 0..MaxLead, d \in Words(w)}

ScenarioInit ==
    /\ resolution = 4
    /\ pc = "m108"
    /\ ret = "none"
    /\ caught = "none"
    /\ uncaught = "none"
    /\ clock = HIGH
    /\ hold = LOW
    /\ sdo = 1
    /\ pos = 0
    /\ consumed = 0
    /\ dataDetected = FALSE
    /\ wi = 0
    /\ fi = 0
    /\ rk = 0
    /\ ri = 0
    /\ validDataList = <<>>
    /\ validData = 0
    /\ window = [i \in 1..K |-> 0]
    /\ file = <<>>
    /\ closed = FALSE
    /\ syncEnd = 0
    /\ np = 0
    /\ n1 = 0
    /\ n0 = 0
    /\ bitsRead = <<>>
    /\ log = <<>>
    /\ stream \in Conversions(4) \cup {a \o b : a \in Conversions(4), b \in Conversions(4)}
    /\ input = stream
    /\ tristate = TRUE

ScenarioNext ==
    \/ main_108
    \/ main_109
    \/ WaitForData
    \/ ReadADC

ScenarioSpec == ScenarioInit /\ [][ScenarioNext]_vars

(***************************************************************************)
(* Vocabulary of the properties.                                           *)
(***************************************************************************)
WfdPcs == {"w58", "w59", "w60", "w61", "w63", "w67", "w68", "w69", "w70"}
ReadPcs == {"r79", "r80", "r81", "r82", "r83", "r86", "r91", "r97", "r98"}

\* K zeros: the frame marker
Marker == [i \in 1..K |-> 0]

\* waitForData has just returned to its caller
SyncReturned == pc \in {"s49", "r79"} /\ fi = 0 /\ validDataList = <<>>

\* seq contains K consecutive zeros
HasMarker(seq) ==
    \E i \in 1..Len(seq) : /\ i + K - 1 <= Len(seq)
                           /\ \A j \in i..(i + K - 1) : seq[j] = 0

\* The bits the next samples will see: the bit on the line if the first
\* LOW is no falling edge, then the burst.
Upcoming == IF clock = HIGH THEN stream ELSE <<sdo>> \o stream

\* MSB-first encoding of raw on resolution bits, indexed like validDataList
Encode(raw) == [i \in 0..(resolution - 1) |-> (raw \div Pow2(resolution - 1 - i)) % 2]

(***************************************************************************)
(* C1: waitForData is a zero-run counter: it goes on pulsing exactly while *)
(* the bits sampled in the call do not end in K consecutive zeros, and has *)
(* returned as soon as they do.  (Violated: after a block such as 0,1,0,0  *)
(* the code reads blocks of four, so a marker that straddles two blocks    *)
(* goes unnoticed.)                                                        *)
(***************************************************************************)
C1_ZeroRunCounter ==
    /\ pc \in {"w60", "w61", "w63", "w68", "w69", "w70"} => window # Marker
    /\ SyncReturned => window = Marker

(***************************************************************************)
(* C2: whenever waitForData has returned, the last K bits it sampled were  *)
(* all 0 (so at least K bits were sampled in the call), and every data bit *)
(* readADC samples afterwards was shifted out after the last marker bit.   *)
(***************************************************************************)
C2_MarkerOnReturn ==
    /\ SyncReturned => window = Marker
    /\ pc \in ReadPcs => window = Marker
    /\ pc = "r83" => pos > consumed

C2_Witness == pc = "r83" /\ rk = 1 /\ window = Marker /\ pos > flushPulses + 2 * K + 1

(***************************************************************************)
(* C3: if the bits presented to a waitForData call contain K consecutive   *)
(* zeros, the call eventually returns, even when SDO idles at 1 afterwards.*)
(* (Violated for 0,1,0,0,0,0 followed by the idle line.)                   *)
(***************************************************************************)
C3_SyncTerminates ==
    [](pc = "w58" /\ HasMarker(Upcoming) => <>(pc \in {"s49", "r79"}))

(***************************************************************************)
(* C4: idle-high -- whenever waitForData, readADC or startADC has just     *)
(* returned, the last level driven on the clock line is HIGH.              *)
(***************************************************************************)
C4_IdleHigh ==
    /\ SyncReturned => clock = HIGH
    /\ pc = "m108" => clock = HIGH
    /\ pc = "m109" => clock = HIGH

C4_Witness == pc = "m109" /\ clock = HIGH /\ consumed = pos /\ file = <<>>

(***************************************************************************)
(* C5: round trip -- the integer assembled from the resolution bits read   *)
(* after synchronisation lies in 0 .. 2^resolution - 1 and the bits read   *)
(* are its MSB-first encoding.                                             *)
(***************************************************************************)
C5_RoundTrip ==
    pc = "r91" =>
        /\ validData \in 0..(Pow2(resolution) - 1)
        /\ validDataList = Encode(validData)

C5_Witness ==
    /\ pc = "r91"
    /\ validData = Pow2(resolution - 1) + 2
    /\ validDataList[0] = 1
    /\ validDataList[resolution - 2] = 1
    /\ validDataList[resolution - 1] = 0

(***************************************************************************)
(* C6: threshold filter -- in a cycle whose write does not raise, a record *)
(* is appended to the sink if and only if the computed voltage is strictly *)
(* greater than threshold; at or below it the cycle ends with the sink     *)
(* unchanged.  Nothing else ever appends to the sink.                      *)
(***************************************************************************)
C6_ThresholdFilter ==
    [][/\ (pc = "r97" /\ pc' # "h112") =>
              /\ file' = file
              /\ pc' = IF validData > threshold * Pow2(resolution) THEN "r98" ELSE "m109"
       /\ (pc = "r98" /\ pc' # "h112") =>
              /\ validData > threshold * Pow2(resolution)
              /\ file' = Append(file, validData)
              /\ pc' = "m109"
       /\ file' # file => pc = "r98"
      ]_vars

C6_Witness ==
    /\ pc = "m109"
    /\ Len(file) = 1
    /\ file[1] > threshold * Pow2(resolution)
    /\ file[1] < (threshold + 1) * Pow2(resolution)

(***************************************************************************)
(* C7: when the acquisition loop is ended by an interrupt or another       *)
(* exception and the process then ends (short of a second interrupt), the  *)
(* sink has been closed.  (Violated: the handler raises NameError at line  *)
(* 112 before it reaches ADC_file.close(); as shipped the file does not    *)
(* even compile, see compile_Rejected.)                                    *)
(***************************************************************************)
C7_SinkClosedOnTermination ==
    (pc = "exit" /\ caught # "none" /\ uncaught # "KeyboardInterrupt") => closed

(***************************************************************************)
(* C8: no partial sample is written -- the sink only grows by the write of *)
(* line 99, made after waitForData returned on a marker and all            *)
(* resolution data bits were sampled, and the record is the voltage of     *)
(* exactly those bits; a step that ends the cycle through an exception, or *)
(* any step of the handler, leaves the sink as it was.                     *)
(***************************************************************************)
C8_NoPartialSample ==
    [][/\ file' # file =>
              /\ pc = "r98"
              /\ window = Marker
              /\ rk = resolution
              /\ \A i \in 0..(resolution - 1) : validDataList[i] \in Bit
              /\ file' = Append(file, ToVoltage(Assemble(validDataList)))
       /\ (pc' \in {"h112", "exit"} \/ pc \in {"h112", "exit"}) => file' = file
      ]_vars

C8_Witness == pc = "h112" /\ caught = "KeyboardInterrupt" /\ Len(file) = 1

(***************************************************************************)
(* C9: the stream position moves by exactly one on every falling clock     *)
(* edge and never otherwise, and every bit sampled lies strictly after     *)
(* every bit sampled or flushed before -- in particular the bits of the    *)
(* first waitForData + read after startADC lie after all bits consumed by  *)
(* startADC's discarded waitForData and its flush burst.                   *)
(***************************************************************************)
C9_NoBitReused ==
    [][/\ pos' = IF clock = HIGH /\ clock' = LOW THEN pos + 1 ELSE pos
       /\ consumed' >= consumed
       /\ (pc \in {"w63", "w70", "r83"} /\ pc' \notin {"h112", "exit"}) =>
              /\ pos > consumed
              /\ consumed' = pos
      ]_vars

C9_Witness == pc = "r80" /\ rk = 1 /\ consumed = pos /\ consumed > flushPulses + K

(***************************************************************************)
(* C10: a failed write of a record does not end acquisition -- after it    *)
(* the program is still inside the loop of lines 107-109.  (Violated: the  *)
(* bare except of line 111 sits outside the loop, so the failure ends it.) *)
(***************************************************************************)
C10_WriteFailureKeepsRunning == caught = "IOError" => InTry

(***************************************************************************)
(* C11: end-to-end scenario with resolution 4 (K=4, vref=3300, offset=0,   *)
(* threshold=200).  On the burst 1,0,0,0,0,1,0,1,1 waitForData returns     *)
(* after the four zeros at positions 2..5, the read samples 1,0,1,1 at     *)
(* positions 6..9, the raw value is 11, the voltage times 16 is 11*3300,   *)
(* and exactly one record (that voltage) is written.  On the burst         *)
(* 1,0,0,0,0,0,0,0,0 the raw value and the voltage are 0 and no record is  *)
(* ever written.                                                           *)
(***************************************************************************)
C11_EndToEnd ==
    /\ input = <<1, 0, 0, 0, 0, 1, 0, 1, 1>> =>
          /\ pc = "r79" => syncEnd = 5 /\ pos = 5 /\ window = <<0, 0, 0, 0>>
          /\ pc = "r86" => bitsRead = <<1, 0, 1, 1>> /\ pos = 9 /\ syncEnd = 5
          /\ pc = "r91" => validData = 11
          /\ pc = "r97" => validData = 11 * 3300
          /\ pc = "r98" => file = <<>>
          /\ pc = "m109" => file = <<11 * 3300>>
          /\ file \in {<<>>, <<11 * 3300>>}
          /\ log # <<>> => log = <<[bits |-> <<1, 0, 1, 1>>, mv |-> 11 * 3300, emit |-> TRUE]>>
    /\ input = <<1, 0, 0, 0, 0, 0, 0, 0, 0>> =>
          /\ pc = "r79" => syncEnd = 5 /\ pos = 5
          /\ pc = "r91" => validData = 0
          /\ pc = "r97" => validData = 0
          /\ pc # "r98"
          /\ file = <<>>
          /\ log # <<>> => log = <<[bits |-> <<0, 0, 0, 0>>, mv |-> 0, emit |-> FALSE]>>

C11_Witness ==
    /\ input = <<1, 0, 0, 0, 0, 1, 0, 1, 1>>
    /\ pc \in WfdPcs
    /\ file = <<11 * 3300>>
    /\ stream = <<>>
    /\ n1 > 0

(***************************************************************************)
(* C12: voltage boundaries, over the exact scaled integers                 *)
(* voltage * 2^resolution.  Every computed voltage lies in                 *)
(* [offset, vref + offset); the all-zero word gives exactly offset and the *)
(* all-one word gives vref * (1 - 2^-resolution) + offset, strictly below  *)
(* vref + offset.                                                          *)
(***************************************************************************)
C12_VoltageBounds ==
    pc = "r97" =>
       /\ validData >= offset * Pow2(resolution)
       /\ validData < (vref + offset) * Pow2(resolution)
       /\ bitsRead = [i \in 1..resolution |-> 0] =>
             validData = offset * Pow2(resolution)
       /\ bitsRead = [i \in 1..resolution |-> 1] =>
             /\ validData = vref * (Pow2(resolution) - 1) + offset * Pow2(resolution)
             /\ validData = (vref + offset) * Pow2(resolution) - vref

C12_Witness ==
    /\ pc = "r97"
    /\ bitsRead = [i \in 1..resolution |-> 1]
    /\ validData = vref * (Pow2(resolution) - 1) + offset * Pow2(resolution)

(***************************************************************************)
(* C13: determinism across cycles.  The voltage and the emit decision of a *)
(* cycle are a function of the resolution data bits it sampled after the   *)
(* marker: two cycles that sampled the same bits produced the same voltage *)
(* and the same decision, whatever came before them, and every cycle       *)
(* starts from cleared sample state.                                       *)
(***************************************************************************)
C13_Determinism ==
    /\ \A i \in DOMAIN log : \A j \in DOMAIN log :
          log[i].bits = log[j].bits =>
             log[i].mv = log[j].mv /\ log[i].emit = log[j].emit
    /\ \A i \in DOMAIN log :
          /\ log[i].mv = ToVoltage(Assemble([k \in 0..(resolution - 1) |-> log[i].bits[k + 1]]))
          /\ log[i].emit = AboveThreshold(log[i].mv)
    /\ pc = "r79" => validDataList = <<>> /\ validData = 0 /\ bitsRead = <<>>

C13_Witness ==
    /\ Len(log) = 2
    /\ log[1].bits = log[2].bits
    /\ log[1].emit
    /\ Len(file) = 2
    /\ \E n \in 1..MaxLead : \A k \in 1..n : input[k] = 1

(***************************************************************************)
(* C14: after waitForData returned to readADC the read loop issues exactly *)
(* resolution pulses and takes exactly resolution samples whatever the     *)
(* bits are: inside the loop the pulses issued since the return equal the  *)
(* iterations started, when the loop is left both the pulses and the       *)
(* samples number exactly resolution, no pulse follows in readADC, and no  *)
(* step of the read leads back into waitForData.                           *)
(***************************************************************************)
C14_ExactlyWPulses ==
    /\ [](/\ pc \in {"r80", "r81"} =>
                pos = syncEnd + Len(bitsRead) /\ Len(bitsRead) <= resolution
          /\ pc \in {"r82", "r83"} =>
                pos = syncEnd + Len(bitsRead) + 1 /\ Len(bitsRead) < resolution
          /\ pc \in {"r86", "r91", "r97", "r98"} =>
                /\ pos = syncEnd + resolution
                /\ Len(bitsRead) = resolution
                /\ rk = resolution)
    /\ [][/\ pc \in ReadPcs => pc' \notin WfdPcs
          /\ pc = "r80" /\ pc' = "r86" => Len(bitsRead) = resolution
          /\ pc \in {"r86", "r91", "r97", "r98"} => pos' = pos /\ clock' = clock]_vars

C14_Witness ==
    /\ pc = "r86"
    /\ pos = syncEnd + resolution
    /\ \E i \in 1..resolution : \E j \in 1..resolution :
          bitsRead[i] = 1 /\ bitsRead[j] = 0 /\ i < j

(***************************************************************************)
(* C15: sampling discipline.  Every GPIO.input of waitForData and readADC  *)
(* (lines 63, 70, 83) runs with the clock HIGH, right after a LOW then     *)
(* HIGH pair that started from a HIGH clock; the bit on SDO at a sample is *)
(* the one shifted out by exactly one falling edge after the bit of the    *)
(* previous sample (or the last flushed bit), so no bit is skipped or read *)
(* twice.  Before the very first sample nothing has been consumed.         *)
(***************************************************************************)
SamplePcs == {"w63", "w70", "r83"}

C15_SamplingDiscipline ==
    /\ pc \in SamplePcs =>
          clock = HIGH /\ (consumed > 0 => pos = consumed + 1)
    /\ pc \in {"w61", "w69", "r82"} =>
          clock = LOW /\ (consumed > 0 => pos = consumed + 1)
    /\ pc \in {"w60", "w68", "r81"} /\ consumed > 0 =>
          clock = HIGH /\ pos = consumed

C15_Witness ==
    /\ pc = "r83"
    /\ clock = HIGH
    /\ Len(bitsRead) >= 2
    /\ pos = consumed + 1
    /\ sdo # bitsRead[Len(bitsRead)]

(***************************************************************************)
(* C16: startADC calls waitForData exactly once and keeps nothing of it,   *)
(* then issues exactly flushPulses = 20 LOW/HIGH pairs (20 >= 2K and       *)
(* 20 >= 16), i.e. the converter shifts out exactly 20 bits between the    *)
(* return of waitForData and the return of startADC; during the flush SDO  *)
(* is never read (no sample is recorded, no local of the sampling code     *)
(* changes), waitForData is not entered again, and nothing is written to   *)
(* the file during the whole of startADC.                                  *)
(***************************************************************************)
FlushPcs == {"s49", "s50", "s51"}

InStartup ==
    \/ pc \in {"m104", "s46"} \cup FlushPcs
    \/ pc \in WfdPcs /\ ret = "startADC"

C16_Startup ==
    /\ [](/\ flushPulses = 20
          /\ flushPulses >= 2 * K
          /\ flushPulses >= 16
          /\ InStartup =>
                file = <<>> /\ log = <<>> /\ validDataList = <<>> /\ validData = 0
          /\ pc \in {"s49", "s50"} =>
                pos = syncEnd + fi /\ fi <= flushPulses /\ clock = HIGH
          /\ pc = "s51" =>
                pos = syncEnd + fi + 1 /\ fi < flushPulses /\ clock = LOW
          /\ pc \in FlushPcs => consumed = pos /\ ~dataDetected /\ pc \notin SamplePcs)
    /\ [][/\ pc' = "s46" => pc = "m104"
          /\ pc' = "m104" => pc = "load"
          /\ pc' = "w58" /\ ret' = "startADC" => pc = "s46"
          /\ pc = "s49" /\ pc' = "m108" =>
                fi = flushPulses /\ pos = syncEnd + flushPulses /\ file = <<>>
          /\ pc \in FlushPcs =>
                /\ pc' \in FlushPcs \cup {"m108", "exit"}
                /\ window' = window
                /\ readLocals' = readLocals
                /\ dataDetected' = dataDetected
                /\ sink' = sink]_vars

C16_Witness ==
    /\ pc = "m108"
    /\ log = <<>>
    /\ pos = syncEnd + flushPulses
    /\ consumed = pos
    /\ window = Marker
    /\ syncEnd > K
    /\ file = <<>>

(***************************************************************************)
(* C17: life cycle of main.  startADC runs once, from the start of the     *)
(* program, and the loop of lines 107-109 is entered only by its return    *)
(* after the full flush; no sample is read and no record written before    *)
(* that.  Once in the loop the program never goes back into startADC and   *)
(* leaves the loop only through an exception (interrupt or error).  Each   *)
(* iteration runs its phases in the order waitForData, read loop,          *)
(* conversion and threshold test, optional write, sleep, and the file      *)
(* grows only in the step from the write to the sleep.                     *)
(***************************************************************************)
PhaseOf(p) ==
    IF p = "m108" THEN 0
    ELSE IF p \in WfdPcs \cup {"r76"} THEN 1
    ELSE IF p \in {"r79", "r80", "r81", "r82", "r83"} THEN 2
    ELSE IF p \in {"r86", "r91", "r97"} THEN 3
    ELSE IF p = "r98" THEN 4
    ELSE 5

PhaseOrder ==
    {<<0, 1>>, <<1, 1>>, <<1, 2>>, <<2, 2>>, <<2, 3>>, <<3, 3>>, <<3, 4>>, <<3, 5>>,
     <<4, 5>>, <<5, 0>>}

C17_Lifecycle ==
    /\ [](InStartup => ~InTry /\ file = <<>> /\ log = <<>> /\ bitsRead = <<>>)
    /\ [][/\ InStartup' => InStartup \/ pc = "load"
          /\ ~InTry /\ InTry' => pc = "s49" /\ fi = flushPulses /\ pc' = "m108"
          /\ InTry /\ caught' = caught /\ uncaught' = uncaught => InTry'
          /\ InTry /\ InTry' => <<PhaseOf(pc), PhaseOf(pc')>> \in PhaseOrder
          /\ file' # file => pc = "r98" /\ pc' = "m109"
          /\ bitsRead' # bitsRead /\ bitsRead' # <<>> => InTry]_vars

C17_Witness ==
    /\ pc = "r76"
    /\ log # <<>>
    /\ file # <<>>
    /\ caught = "none"
    /\ uncaught = "none"

(***************************************************************************)
(* C18: the hold line is driven LOW at setup (line 33) and no statement of *)
(* startADC, waitForData, readADC or main drives it afterwards: it is LOW  *)
(* in every reachable state of startADC, waitForData, readADC and the loop *)
(* of main, whatever level the pin had before setup, and no step after     *)
(* setup changes it.                                                       *)
(***************************************************************************)
C18_HoldInert ==
    /\ [](InStartup \/ InTry \/ pc = "h112" => hold = LOW)
    /\ [][pc = "load" /\ pc' = "m104" => hold' = LOW]_vars
    /\ [][pc # "load" => hold' = hold]_vars

C18_Witness ==
    /\ hold = LOW
    /\ pc = "m109"
    /\ file # <<>>
    /\ pos > flushPulses + K + resolution

(***************************************************************************)
(* C19: block-wise marker check of waitForData.  Once the outer loop has   *)
(* sampled a 0 (line 63), the for loop of line 67 always issues and        *)
(* samples exactly three further pulses before the while condition is      *)
(* tested again, also when one of the three samples is a 1: that 1 only    *)
(* clears dataDetected, and the remaining bits of the block are consumed   *)
(* without setting it again.  Hence, whenever the while condition is       *)
(* tested (and so at the return), the pulses issued by the call number     *)
(* (1s sampled on line 63) + 4 * (0s sampled on line 63).                  *)
(***************************************************************************)
C19_BlockwiseCheck ==
    /\ [](/\ K = 4
          /\ pc = "w59" => np = n1 + 4 * n0
          /\ pc = "w67" => np = n1 + 4 * (n0 - 1) + 1 + wi /\ wi <= innerReads
          /\ pc = "w70" => np = n1 + 4 * (n0 - 1) + 2 + wi /\ wi < innerReads)
    /\ [][/\ pc = "w63" /\ sdo = 0 /\ pc' \in WfdPcs => pc' = "w67" /\ wi' = 0
          /\ pc = "w67" /\ pc' = "w59" => wi = innerReads
          /\ pc = "w70" /\ pc' \in WfdPcs =>
                pc' = "w67" /\ wi' = wi + 1 /\ n0' = n0 /\ n1' = n1
          /\ pc \in {"w67", "w68", "w69", "w70"} /\ ~dataDetected => ~dataDetected'
          /\ pc = "w59" /\ pc' \in {"s49", "r79"} => np = n1 + 4 * n0 /\ n0 >= 1]_vars

C19_Witness ==
    /\ pc = "w59"
    /\ window = <<0, 1, 0, 0>>
    /\ ~dataDetected
    /\ n0 = 1
    /\ n1 >= 1
    /\ np = n1 + 4

====
